---- MODULE Spec2Model ----
(***************************************************************************)
(* Model of worker/src/routes/docs.ts: the Docs route, the adoc2html       *)
(* entry point, the FranklinConverter (node-to-HTML templates, stateful    *)
(* section nesting) and the top-level list wrapping pass.                  *)
(*                                                                         *)
(* Text is modelled as a sequence of tokens.  Link targets, paths and      *)
(* class names are sequences of single characters, so that suffix          *)
(* stripping, URL normalisation and class-name normalisation are computed  *)
(* and not assumed.  Markup is one token per tag or attribute fragment.    *)
(***************************************************************************)
EXTENDS Integers, Sequences, FiniteSets, TLC

VARIABLES
    pc,            \* position of the request / conversion
    caller,        \* "none", "route" (Docs) or "direct" (a caller of adoc2html)
    status,        \* status of the upstream response, 0 before the fetch resolves
    routeResult,   \* what the Docs route hands back to its caller
    options,       \* the options adoc2html was called with
    topicDirPath,  \* FranklinConverter.topicDirPath
    sectionDepth,  \* FranklinConverter.sectionDepth
    doc,           \* FranklinConverter.doc
    call,          \* the convert(node, transform) call the parser made last
    stack,         \* open section frames of that call, innermost last
    ret,           \* what that call returned
    bookCalls,     \* paths handed to book.resolve during that call
    tree,          \* children of the hast root after fromHtml
    parsed,        \* the children as fromHtml produced them
    index          \* position of the forEach over tree.children

vars == <<pc, caller, status, routeResult, options, topicDirPath, sectionDepth,
          doc, call, stack, ret, bookCalls, tree, parsed, index>>

\* JavaScript's undefined, for a value that is a name when it is present.
Undefined == "undefined"

\* An optional string: absent, or present with its characters.
Absent == [defined |-> FALSE]

Present(s) == [defined |-> TRUE, value |-> s]

\* The empty string.
Empty == <<>>

(***************************************************************************)
(* Bounds of the model.                                                    *)
(***************************************************************************)
\* Most nodes (sections and paragraphs) in a section tree handed to convert.
MaxNodes == 4
\* Most items in a list node.
MaxItems == 2
\* Most rows in each of a table's head, body and foot.
MaxRows == 1
\* Most top-level children of the parsed HTML fragment.
MaxChildren == 2

(***************************************************************************)
(* Strings                                                                 *)
(***************************************************************************)
StartsWith(s, p) == Len(s) >= Len(p) /\ SubSeq(s, 1, Len(p)) = p

EndsWith(s, p) == Len(s) >= Len(p) /\ SubSeq(s, Len(s) - Len(p) + 1, Len(s)) = p

\* s.slice(0, -n)
SliceOff(s, n) == SubSeq(s, 1, Len(s) - n)

Uppers ==
    <<"A", "B", "C", "D", "E", "F", "G", "H", "I", "J", "K", "L", "M",
      "N", "O", "P", "Q", "R", "S", "T", "U", "V", "W", "X", "Y", "Z">>

Lowers ==
    <<"a", "b", "c", "d", "e", "f", "g", "h", "i", "j", "k", "l", "m",
      "n", "o", "p", "q", "r", "s", "t", "u", "v", "w", "x", "y", "z">>

Digits == {"0", "1", "2", "3", "4", "5", "6", "7", "8", "9"}

\* [0-9a-z] under the i flag
IsAlnum(c) == c \in Digits \/ \E i \in DOMAIN Uppers : c = Uppers[i] \/ c = Lowers[i]

LowerChar(c) ==
    IF \E i \in DOMAIN Uppers : c = Uppers[i] THEN Lowers[CHOOSE i \in DOMAIN Uppers : c = Uppers[i]] ELSE c

\* String.prototype.toLowerCase
ToLowerCase(s) == [i \in 1..Len(s) |-> LowerChar(s[i])]

\* Length of the run of hyphens s starts with.
RECURSIVE HyphenRun(_)
HyphenRun(s) == IF s # Empty /\ Head(s) = "-" THEN 1 + HyphenRun(Tail(s)) ELSE 0

\* s.replace(/-{3,}/g, '--')
RECURSIVE CollapseHyphens(_)
CollapseHyphens(s) ==
    IF s = Empty THEN Empty
    ELSE LET n == HyphenRun(s) IN
         IF n >= 3 THEN <<"-", "-">> \o CollapseHyphens(SubSeq(s, n + 1, Len(s)))
         ELSE IF n > 0 THEN SubSeq(s, 1, n) \o CollapseHyphens(SubSeq(s, n + 1, Len(s)))
         ELSE <<Head(s)>> \o CollapseHyphens(Tail(s))

\* Position of the first "/" of s, or Len(s) + 1.
RECURSIVE FirstSlash(_)
FirstSlash(s) == IF s = Empty \/ Head(s) = "/" THEN 1 ELSE 1 + FirstSlash(Tail(s))

\* Position of the last "/" of s, or 0.
RECURSIVE LastSlash(_)
LastSlash(s) == IF s = Empty THEN 0 ELSE IF s[Len(s)] = "/" THEN Len(s) ELSE LastSlash(SliceOff(s, 1))

HTTP == <<"h", "t", "t", "p", ":", "/", "/">>
HTTPS == <<"h", "t", "t", "p", "s", ":", "/", "/">>
DotFranklin == <<".", "f", "r", "a", "n", "k", "l", "i", "n">>
DotAdoc == <<".", "a", "d", "o", "c">>

\* /^https?:\/\//.test(href)
IsHttpUrl(href) == StartsWith(href, HTTP) \/ StartsWith(href, HTTPS)

\* new URL(href): the parsed URL; ok is FALSE where the constructor throws
\* (a relative reference, or no host).  The parser lowercases the host and
\* gives an empty path the path "/".
ParseURL(href) ==
    LET scheme == IF StartsWith(href, HTTPS) THEN HTTPS ELSE HTTP
        after == SubSeq(href, Len(scheme) + 1, Len(href))
        cut == FirstSlash(after)
        host == SubSeq(after, 1, cut - 1)
        path == SubSeq(after, cut, Len(after))
    IN  IF ~IsHttpUrl(href) \/ host = Empty THEN [ok |-> FALSE]
        ELSE [ok |-> TRUE, scheme |-> scheme, hostname |-> ToLowerCase(host),
              path |-> IF path = Empty THEN <<"/">> ELSE path]

\* url.toString()
UrlToString(url) == url.scheme \o url.hostname \o url.path

\* url.hostname.replace(/-{3,}/g, '--').toLowerCase()
NormalizeHostname(hostname) == ToLowerCase(CollapseHyphens(hostname))

\* A variant of NormalizeUrl that collapses hyphen runs anywhere in the URL.
NormalizeWholeHref(href) ==
    LET url == ParseURL(href) IN
    IF ~url.ok THEN href ELSE ToLowerCase(CollapseHyphens(UrlToString(url)))

\* The try block of inline_anchor: the whole href with its hostname
\* normalised, or href itself where new URL(href) throws.
NormalizeUrl(href) ==
    LET url == ParseURL(href) IN
    IF ~url.ok THEN href
    ELSE UrlToString([url EXCEPT !.hostname = NormalizeHostname(url.hostname)])

\* if (href.endsWith('.franklin')) href = href.slice(0, -'.franklin'.length)
StripFranklin(href) ==
    IF EndsWith(href, DotFranklin) THEN SliceOff(href, Len(DotFranklin)) ELSE href

\* if (href.endsWith('.adoc')) href = href.slice(0, -'.adoc'.length)
StripAdoc(href) ==
    IF EndsWith(href, DotAdoc) THEN SliceOff(href, Len(DotAdoc)) ELSE href

\* if (href) { ... }: the href of an anchor after suffix stripping and URL
\* normalisation; the empty target is left alone.
AnchorHref(target) ==
    IF target = Empty THEN target ELSE NormalizeUrl(StripFranklin(target))

\* topicPath.split('/').slice(0, -1).join('/')
DirName(topicPath) ==
    LET k == LastSlash(topicPath) IN
    IF k = 0 THEN Empty ELSE SubSeq(topicPath, 1, k - 1)

\* `${this.topicDirPath}/${href}`
BookPath(dir, href) == dir \o <<"/">> \o href

\* The Book collaborator: an opaque, injective path-to-URL mapping.
BookResolve(path) == <<"book:">> \o path

\* toClassName of ./string: lowercase, every character that is not a letter
\* or digit becomes a hyphen.
toClassName(name) ==
    [i \in 1..Len(name) |-> IF IsAlnum(name[i]) THEN LowerChar(name[i]) ELSE "-"]

(***************************************************************************)
(* Markup tokens                                                           *)
(***************************************************************************)
\* A newline of a template literal, with the indentation that follows it.
NL == "\n"

IsSpace(t) == t \in {NL, " ", "\t"}

\* String.prototype.trim
RECURSIVE TrimStart(_)
TrimStart(s) == IF s # Empty /\ IsSpace(Head(s)) THEN TrimStart(Tail(s)) ELSE s

RECURSIVE TrimEnd(_)
TrimEnd(s) == IF s # Empty /\ IsSpace(s[Len(s)]) THEN TrimEnd(SliceOff(s, 1)) ELSE s

Trim(s) == TrimEnd(TrimStart(s))

\* Array.prototype.join
RECURSIVE Join(_, _)
Join(parts, sep) ==
    IF parts = <<>> THEN Empty
    ELSE IF Len(parts) = 1 THEN parts[1]
    ELSE parts[1] \o sep \o Join(Tail(parts), sep)

\* The concatenation of a sequence of sequences.
Flatten(parts) == Join(parts, Empty)

\* content.replace(/[\t]/g, ' ')
ReplaceTabs(s) == [i \in 1..Len(s) |-> IF s[i] = "\t" THEN " " ELSE s[i]]

Fragment == <<"f", "r", "a", "g", "m", "e", "n", "t">>
Procedure == <<"p", "r", "o", "c", "e", "d", "u", "r", "e">>
TableName == <<"t", "a", "b", "l", "e">>
Headless == <<"h", "e", "a", "d", "l", "e", "s", "s">>
Include == <<"i", "n", "c", "l", "u", "d", "e">>
DocsVariant == <<"d", "o", "c", "s">>

DivOpen == "<div>"
DivClose == "</div>"
ClassOpen == "<div class=\""
AttrClose == "\">"

(***************************************************************************)
(* FranklinConverter.makeBlock                                             *)
(***************************************************************************)
makeBlock(name, content, variants, singleCell) ==
    LET variantStr == Join([i \in 1..Len(variants) |-> toClassName(variants[i])], <<" ">>)
    IN  <<NL, ClassOpen>> \o toClassName(name)
        \o (IF variantStr # Empty THEN <<" ">> \o variantStr ELSE Empty)
        \o <<AttrClose, NL>>
        \o (IF singleCell THEN <<DivOpen, DivOpen, NL>> ELSE Empty)
        \o Trim(content)
        \o (IF singleCell THEN <<NL, DivClose, DivClose>> ELSE Empty)
        \o <<NL, DivClose>>

(***************************************************************************)
(* FranklinConverter.tableToBlock                                          *)
(***************************************************************************)
\* cols.map((col) => `<div>${col.getContent()}</div>`).join('')
processCols(cols) ==
    Flatten([i \in 1..Len(cols) |-> <<DivOpen>> \o cols[i] \o <<DivClose>>])

\* rows.map((row) => `<div>${processCols(row)}</div>`).join('\n')
processRows(rows) ==
    Join([i \in 1..Len(rows) |-> <<DivOpen>> \o processCols(rows[i]) \o <<DivClose>>], <<NL>>)

\* The content of a table block: head, body and foot rows, one per line.
TableContent(head, body, foot) ==
    <<NL>> \o processRows(head) \o <<NL>> \o processRows(body) \o <<NL>> \o processRows(foot)

\* A variant of TableVariants that marks every table headless.
AlwaysHeadless(head) == <<Headless>>

\* head.length === 0 ? ['headless'] : ['']
TableVariants(head) == IF Len(head) = 0 THEN <<Headless>> ELSE <<Empty>>

tableToBlock(name, node) ==
    makeBlock(name, TableContent(node.head, node.body, node.foot),
              TableVariants(node.head), FALSE)

tableToTableBlock(node) == tableToBlock(TableName, node)

(***************************************************************************)
(* FranklinConverter.templates                                             *)
(*                                                                         *)
(* A template yields the string it returns (html) and the paths it hands   *)
(* to book.resolve (book).  kids are the results of this.convert(block)    *)
(* for the node's blocks, in order.                                        *)
(***************************************************************************)
Out(html, book) == [html |-> html, book |-> book]

KidsHtml(kids) == [i \in 1..Len(kids) |-> kids[i].html]

KidsBook(kids) == Flatten([i \in 1..Len(kids) |-> kids[i].book])

Registered ==
    {"paragraph", "inline_anchor", "floating-title", "embedded", "thematic_break",
     "section", "literal", "admonition", "listing", "inline_quoted", "ulist",
     "dlist", "olist", "list_item", "image", "table"}

Anchor(href, text) == <<"<a href=\"">> \o href \o <<AttrClose>> \o text \o <<"</a>">>

paragraph(node) == Out(<<"<p>">> \o node.content \o <<"</p>">>, <<>>)

\* A variant of IncludeNeedsBook that sends every include to the Book.
AlwaysNeedsBook(href) == TRUE

\* The href of an include after the '.adoc' suffix is removed, and whether
\* it is handed to the Book.
IncludeNeedsBook(href) == ~IsHttpUrl(StripAdoc(href))

inline_anchor(node, dir) ==
    LET isInclude == node.role = "bare include"
        href == AnchorHref(node.target)
        stripped == StripAdoc(href)
        path == BookPath(dir, stripped)
    IN  IF isInclude
        THEN IF IncludeNeedsBook(href)
             THEN Out(makeBlock(Fragment, Anchor(BookResolve(path), node.text),
                                <<Include, DocsVariant>>, TRUE), <<path>>)
             ELSE Out(makeBlock(Fragment, Anchor(stripped, node.text), <<Include>>, TRUE), <<>>)
        ELSE Out(Anchor(href, node.text), <<>>)

floating_title_template(node) == Out(Empty, <<>>)

embedded(node) == Out(node.content, <<>>)

thematic_break(node) == Out(<<"<hr>">>, <<>>)

literal(node) ==
    Out(<<"<pre><code>">> \o ReplaceTabs(node.content) \o <<"</code></pre>">>, <<>>)

admonition(node) ==
    LET title == Trim(node.title)
        heading == IF title # Empty THEN <<"<h6>">> \o title \o <<"</h6>">> ELSE Empty
    IN  Out(<<NL, "<div class=\"admonition ">> \o ToLowerCase(node.style)
            \o <<AttrClose, NL, DivOpen, NL, DivOpen, NL>>
            \o (IF heading # Empty THEN heading \o <<"\n">> ELSE Empty)
            \o node.content
            \o <<NL, DivClose, NL, DivClose, NL, DivClose>>, <<>>)

listing(node) == literal(node)

inline_quoted(node) ==
    CASE node.type = "strong" -> Out(<<"<strong>">> \o node.text \o <<"</strong>">>, <<>>)
      [] node.type = "monospaced" -> Out(<<"<code>">> \o node.text \o <<"</code>">>, <<>>)
      [] node.type = "emphasis" -> Out(<<"<em>">> \o node.text \o <<"</em>">>, <<>>)
      [] OTHER -> Out(node.text, <<>>)

\* A variant of ListMarkup that wraps empty content too.
AlwaysListMarkup(open, content, close) == <<open>> \o content \o <<close>>

\* content ? `<ul>${content}</ul>` : ''
ListMarkup(open, content, close) ==
    IF content # Empty THEN <<open>> \o content \o <<close>> ELSE Empty

ulist(node, kids) ==
    Out(ListMarkup("<ul>", Flatten(KidsHtml(kids)), "</ul>"), KidsBook(kids))

RECURSIVE convertCol(_)
convertCol(col) ==
    IF col.array THEN Flatten([i \in 1..Len(col.cols) |-> convertCol(col.cols[i])])
    ELSE <<"<p>">> \o col.text \o <<"</p>">>

dlist(node) ==
    LET row(r) == <<DivOpen>>
                  \o Flatten([i \in 1..Len(r) |-> <<DivOpen>> \o convertCol(r[i]) \o <<DivClose>>])
                  \o <<DivClose>>
    IN  Out(<<NL, "<div class=\"dlist", AttrClose, NL>>
            \o Flatten([i \in 1..Len(node.rows) |-> row(node.rows[i])])
            \o <<NL, DivClose>>, <<>>)

olist(node, kids) ==
    LET list == ListMarkup("<ol>", Flatten(KidsHtml(kids)), "</ol>")
    IN  IF node.role # "procedure" THEN Out(list, KidsBook(kids))
        ELSE Out(makeBlock(Procedure, list, <<>>, TRUE), KidsBook(kids))

\* node.getContent() of a list item: the parser converts the item's blocks
\* with this converter and joins them with newlines.
ItemContent(kids) == Join(KidsHtml(kids), <<"\n">>)

\* `<li>${text ? `<p>${text || ''}</p>${content || ''}` : ''}</li>`
ItemMarkup(text, content) ==
    <<"<li>">> \o (IF text # Empty THEN <<"<p>">> \o text \o <<"</p>">> \o content ELSE Empty)
    \o <<"</li>">>

\* The blocks are converted once by getContent and, unless the item is
\* dropped, once more by blocks.map.
list_item(node, kids) ==
    LET baseContent == ItemContent(kids)
        joined == Flatten(KidsHtml(kids))
        content == IF joined = Empty THEN baseContent ELSE joined
    IN  IF node.text = Empty /\ baseContent = Empty THEN Out(Empty, KidsBook(kids))
        ELSE Out(ItemMarkup(node.text, content), KidsBook(kids) \o KidsBook(kids))

image(node) ==
    LET path == <<"/_graphics/">> \o node.src.value
    IN  IF ~node.src.defined \/ node.src.value = Empty THEN Out(Empty, <<>>)
        ELSE Out(<<"<img src=\"">> \o BookResolve(path) \o <<"\" alt=\"">> \o node.alt
                 \o <<"\" width=\"">> \o node.width \o <<AttrClose>>, <<path>>)

\* if (title && head.length === 0): a headless table with a title becomes a
\* block of that name (tableToBlock never returns an empty string).
table(node) ==
    IF node.title # Empty /\ Len(node.head) = 0
    THEN Out(tableToBlock(node.title, node), <<>>)
    ELSE Out(tableToTableBlock(node), <<>>)

\* The template registered for name, applied to node.
Template(name, node, kids, dir) ==
    CASE name = "paragraph" -> paragraph(node)
      [] name = "inline_anchor" -> inline_anchor(node, dir)
      [] name = "floating-title" -> floating_title_template(node)
      [] name = "embedded" -> embedded(node)
      [] name = "thematic_break" -> thematic_break(node)
      [] name = "literal" -> literal(node)
      [] name = "admonition" -> admonition(node)
      [] name = "listing" -> listing(node)
      [] name = "inline_quoted" -> inline_quoted(node)
      [] name = "ulist" -> ulist(node, kids)
      [] name = "dlist" -> dlist(node)
      [] name = "olist" -> olist(node, kids)
      [] name = "list_item" -> list_item(node, kids)
      [] name = "image" -> image(node)
      [] name = "table" -> table(node)

(***************************************************************************)
(* FranklinConverter.convert                                               *)
(***************************************************************************)
\* const name = transform || node.getNodeName()
EffectiveName(node, transform) == IF transform # Undefined THEN transform ELSE node.kind

\* this.baseConverter.convert(node, transform, opts): the parser's own HTML
\* for the node, opaque here.
BaseConvert(node, transform) == <<"html5:" \o EffectiveName(node, transform)>>

\* const template = this.templates[name]; if (template)
HasTemplate(name) == name \in Registered

\* Kinds whose template converts the node's blocks with this.convert.
ConvertsBlocks(name) == name \in {"ulist", "olist", "list_item"}

\* The result of a convert call: the string returned, whether it came from the
\* base converter, and the paths handed to the Book on the way.
Result(html, viaBase, book) == [html |-> html, viaBase |-> viaBase, book |-> book]

\* A variant of ContentReturned that tests truthiness: if (content).
ContentTruthy(content) == content.defined /\ content.value # Empty

\* if (content !== null): content is what the template returned.
ContentReturned(content) == content.defined

\* convert for every node but a section, whose template is stepped below.
\* No template returns null: what it returns is always present.
RECURSIVE convert(_, _, _)
convert(node, transform, dir) ==
    LET name == EffectiveName(node, transform)
        kids == IF ConvertsBlocks(name)
                THEN [i \in 1..Len(node.blocks) |-> convert(node.blocks[i], Undefined, dir)]
                ELSE <<>>
        out == Template(name, node, kids, dir)
    IN  IF HasTemplate(name) /\ ContentReturned(Present(out.html))
        THEN Result(out.html, FALSE, out.book)
        ELSE Result(BaseConvert(node, transform), TRUE,
                    IF HasTemplate(name) THEN out.book ELSE <<>>)

(***************************************************************************)
(* templates.section, one step per statement group                         *)
(***************************************************************************)
\* A variant of Closer that closes a sibling at depth 0 too.
CloserAlways(depth) == <<DivClose>>

\* const closer = this.sectionDepth > 0 ? '</div>' : ''
Closer(depth) == IF depth > 0 THEN <<DivClose>> ELSE Empty

\* this.sectionDepth += 1
DepthEntered(depth) == depth + 1

\* A variant of DepthLeft that forgets the decrement.
DepthKept(depth) == depth

\* this.sectionDepth -= 1
DepthLeft(depth) == depth - 1

\* const tag = `h${level + 1}`; title ? `<${tag}>${title}</${tag}>` : ''
Heading(level, title) ==
    IF title # Empty
    THEN <<"<h" \o ToString(level + 1) \o ">">> \o title \o <<"</h" \o ToString(level + 1) \o ">">>
    ELSE Empty

\* The content of a section: its heading and its converted blocks, one per line.
SectionContent(node, kids) ==
    <<NL>> \o Heading(node.level, node.title) \o <<NL>> \o Join(kids, <<"\n">>)

\* `${closer}<div>${content}${closer ? '' : '</div>'}`
Wrapper(closer, content) ==
    closer \o <<DivOpen>> \o content \o (IF closer # Empty THEN Empty ELSE <<DivClose>>)

\* The frame of a section template that has run up to its blocks.map.
\* entered records the depth the template found, for the properties below.
Frame(node, depth) ==
    [node |-> node, closer |-> Closer(depth), kids |-> <<>>, next |-> 1, entered |-> depth]

(***************************************************************************)
(* Inputs                                                                  *)
(***************************************************************************)
Paragraph == [kind |-> "paragraph", content |-> <<"text">>]

Section(level, title, blocks) ==
    [kind |-> "section", level |-> level, title |-> title, blocks |-> blocks]

Titles == {Empty, <<"Title">>}

\* Section trees of exactly n nodes (sections and paragraphs) rooted at a
\* section of the given level, and the block sequences of m nodes below one.
RECURSIVE SectionTrees(_, _)
RECURSIVE Forests(_, _)
SectionTrees(n, level) ==
    {Section(level, t, f) : t \in Titles, f \in Forests(n - 1, level + 1)}

Forests(m, level) ==
    IF m = 0 THEN {<<>>}
    ELSE UNION {{<<b>> \o f : b \in (IF k = 1 THEN {Paragraph} ELSE {}) \cup SectionTrees(k, level),
                               f \in Forests(m - k, level)} : k \in 1..m}

Sections == UNION {SectionTrees(n, 1) : n \in 1..MaxNodes}

Chars_Scenario2 ==
    <<"h", "t", "t", "p", "s", ":", "/", "/", "E", "x", "a", "m", "p", "l", "e", ".",
      "c", "o", "m", "/", "a", "-", "-", "-", "b", ".", "f", "r", "a", "n", "k", "l", "i", "n">>

Chars_Scenario3 == <<".", "/", "s", "u", "b", ".", "a", "d", "o", "c">>

Targets ==
    {Chars_Scenario2, Chars_Scenario3, Empty,
     <<"h", "t", "t", "p", ":", "/", "/", "A", "-", "-", "-", "-", "B", ".", "i", "o">>,
     <<"h", "t", "t", "p", "s", ":", "/", "/", "m", ".", "i", "o", "/", "t", ".", "a", "d", "o", "c">>,
     <<"p", "a", "g", "e", ".", "f", "r", "a", "n", "k", "l", "i", "n">>}

Anchors ==
    {[kind |-> "inline_anchor", target |-> t, role |-> r, text |-> <<"link">>] :
        t \in Targets, r \in {"bare include", ""}}

ImageNoTarget == [kind |-> "image", src |-> Absent, alt |-> Empty, width |-> <<"undefined">>]

Image ==
    [kind |-> "image", src |-> Present(<<"a", ".", "p", "n", "g">>),
     alt |-> <<"alt">>, width |-> <<"100">>]

ListItem(text, blocks) == [kind |-> "list_item", text |-> text, blocks |-> blocks]

SimpleList == [kind |-> "ulist", role |-> "", blocks |-> <<ListItem(<<"nested">>, <<>>)>>]

ItemBlocks ==
    {<<>>, <<Paragraph>>, <<ImageNoTarget>>, <<ImageNoTarget, ImageNoTarget>>,
     <<Paragraph, Image>>, <<SimpleList>>}

ListItems == {ListItem(t, b) : t \in {Empty, <<"item">>}, b \in ItemBlocks}

RECURSIVE SeqsUpTo(_, _)
SeqsUpTo(S, n) ==
    IF n = 0 THEN {<<>>}
    ELSE {<<>>} \cup {<<x>> \o q : x \in S, q \in SeqsUpTo(S, n - 1)}

Lists ==
    {[kind |-> k.kind, role |-> k.role, blocks |-> b] :
        k \in {[kind |-> "ulist", role |-> ""], [kind |-> "olist", role |-> ""],
               [kind |-> "olist", role |-> "procedure"]},
        b \in SeqsUpTo(ListItems, MaxItems)}

\* Row i of a table part: two cells whose content names the part and the row.
Row(part, i) == <<<<part \o ToString(i)>>, <<"cell">>>>

Rows(part) == {[i \in 1..n |-> Row(part, i)] : n \in 0..MaxRows}

Tables ==
    {[kind |-> "table", title |-> t, head |-> h, body |-> b, foot |-> f] :
        t \in {Empty, <<"M", "y", " ", "T", "a", "b", "l", "e">>, Headless},
        h \in Rows("h"), b \in Rows("b"), f \in Rows("f")}

Term(text) == [array |-> FALSE, text |-> text]

Others ==
    {Paragraph, Image, ImageNoTarget,
     [kind |-> "thematic_break"],
     [kind |-> "literal", content |-> <<"a", "\t", "b">>],
     [kind |-> "listing", content |-> <<"code">>],
     [kind |-> "admonition", style |-> <<"N", "O", "T", "E">>, title |-> Empty, content |-> <<"body">>],
     [kind |-> "admonition", style |-> <<"T", "I", "P">>, title |-> <<" ", "Mind", " ">>, content |-> <<"body">>],
     [kind |-> "inline_quoted", type |-> "strong", text |-> <<"q">>],
     [kind |-> "inline_quoted", type |-> "monospaced", text |-> <<"q">>],
     [kind |-> "inline_quoted", type |-> "emphasis", text |-> <<"q">>],
     [kind |-> "inline_quoted", type |-> "mark", text |-> <<"q">>],
     [kind |-> "dlist",
      rows |-> <<<<[array |-> TRUE, cols |-> <<Term(<<"t1">>), Term(<<"t2">>)>>], Term(<<"d">>)>>>>]}

\* Kinds of NodeType and NodeTypeMap that have no template (floating_title
\* is registered under the name 'floating-title' only).
Unregistered == {"document", "preamble", "sidebar", "floating_title", "inline_image", "colist"}

Document == [kind |-> "document", content |-> <<"<p>", "text", "</p>">>]

\* The convert(node, transform) calls the parser makes.
Calls ==
    {[node |-> n, transform |-> Undefined] :
        n \in Sections \cup Anchors \cup Lists \cup ListItems \cup Tables \cup Others
              \cup {[kind |-> k] : k \in Unregistered}}
    \cup {[node |-> Document, transform |-> "embedded"],
          [node |-> Document, transform |-> Undefined],
          [node |-> Document, transform |-> "outline"],
          [node |-> [kind |-> "floating_title"], transform |-> "floating-title"],
          [node |-> Section(1, <<"Title">>, <<>>), transform |-> "outline"],
          [node |-> Paragraph, transform |-> "toc"]}

GuideIntro == <<"g", "u", "i", "d", "e", "/", "i", "n", "t", "r", "o", ".", "a", "d", "o", "c">>

Intro == <<"i", "n", "t", "r", "o", ".", "a", "d", "o", "c">>

\* The options of the callers that pass a Book and a topic path.
DirectOptions ==
    {[backend |-> "franklin", plain |-> FALSE, book |-> TRUE, topicPath |-> Present(GuideIntro)],
     [backend |-> "franklin", plain |-> TRUE, book |-> TRUE, topicPath |-> Present(Intro)],
     [backend |-> "html5", plain |-> FALSE, book |-> TRUE, topicPath |-> Present(GuideIntro)]}


(***************************************************************************)
(* hast trees: what fromHtml hands to the wrapping pass                    *)
(***************************************************************************)
Element(tagName, children) ==
    [type |-> "element", tagName |-> tagName, properties |-> "{}", children |-> children]

\* A text node has no tagName.
Text(value) == [type |-> "text", tagName |-> Undefined, value |-> value]

ListElement(tagName) ==
    [type |-> "element", tagName |-> tagName, properties |-> "{class}",
     children |-> <<Element("li", <<Text("item")>>)>>]

Elements ==
    {ListElement("ul"), ListElement("ol"), Text("\n"),
     Element("p", <<Text("text")>>),
     Element("div", <<ListElement("ul"), ListElement("ol")>>)}

Fragments == SeqsUpTo(Elements, MaxChildren)

\* A variant of wrappedElements that leaves ordered lists out.
OnlyUnordered == {"ul"}

\* const wrappedElements = ['ol', 'ul']
wrappedElements == {"ol", "ul"}

\* element.tagName && wrappedElements.includes(element.tagName)
IsWrapped(element) == element.tagName # Undefined /\ element.tagName \in wrappedElements

\* { type: 'element', tagName: 'div', properties: {}, children: [clone] }
WrapperOf(element) == Element("div", <<element>>)

\* The body of the forEach callback: the replacement for tree.children[index].
WrapElement(element) == IF IsWrapped(element) THEN WrapperOf(element) ELSE element

\* toHtml of hast-util-to-html.
RECURSIVE ToHtml(_)
ToHtml(nodes) ==
    Flatten([i \in 1..Len(nodes) |->
        IF nodes[i].type = "text" THEN <<nodes[i].value>>
        ELSE <<"<" \o nodes[i].tagName \o ">">> \o ToHtml(nodes[i].children)
             \o <<"</" \o nodes[i].tagName \o ">">>])

\* The page scaffold around the serialized tree.
Page(html) ==
    <<NL, "<!DOCTYPE html>", NL, "<html>", NL, "<head>", "</head>", NL,
      "<body>", NL, "<header></header>", NL, "<main>", NL>>
    \o html \o <<NL, "</main>", NL, "<footer></footer>", NL, "</body>", NL, "</html>">>

\* plain ? toHtml(tree) : the page
Serialize(plain, children) == IF plain THEN ToHtml(children) ELSE Page(ToHtml(children))

(***************************************************************************)
(* The Docs route and adoc2html                                            *)
(***************************************************************************)
Statuses == {200, 204, 403, 404, 500}

\* resp.ok
Ok(st) == st >= 200 /\ st <= 299

Backends == {"franklin", "html5"}

NoCall == [node |-> [kind |-> "none"], transform |-> Undefined]

NoResult == [html |-> Empty, viaBase |-> FALSE, book |-> <<>>, returned |-> FALSE]

NoOptions == [backend |-> Undefined, plain |-> FALSE, book |-> FALSE, topicPath |-> Absent]

NoRouteResult == [kind |-> "pending"]

Init ==
    /\ pc = "idle"
    /\ caller = "none"
    /\ status = 0
    /\ routeResult = NoRouteResult
    /\ options = NoOptions
    /\ topicDirPath = Absent
    /\ sectionDepth = 0
    /\ doc = Undefined
    /\ call = NoCall
    /\ stack = <<>>
    /\ ret = NoResult
    /\ bookCalls = <<>>
    /\ tree = <<>>
    /\ parsed = <<>>
    /\ index = 0

\* Docs, up to the fetch: the backend is the query parameter or 'franklin'.
\* The route passes adoc2html the backend and the attributes only; the
\* upstream URL and the attributes have no part in what the route returns.
Docs(backend) ==
    /\ pc = "idle"
    /\ pc' = "fetching"
    /\ caller' = "route"
    /\ options' = [backend |-> backend, plain |-> FALSE, book |-> FALSE, topicPath |-> Absent]
    /\ UNCHANGED <<status, routeResult, topicDirPath, sectionDepth, doc, call, stack,
                   ret, bookCalls, tree, parsed, index>>

\* What Docs returns for a response that is not ok.
Failure(st) == IF st = 404 THEN [kind |-> "undefined"] ELSE [kind |-> "upstream", status |-> st]

\* Docs, once fetch has resolved: not found, the upstream response, or on to
\* adoc2html with the body.
Fetched(st) ==
    /\ pc = "fetching"
    /\ status' = st
    /\ IF ~Ok(st)
       THEN pc' = "done" /\ routeResult' = Failure(st)
       ELSE pc' = "adoc2html" /\ UNCHANGED routeResult
    /\ UNCHANGED <<caller, options, topicDirPath, sectionDepth, doc, call, stack,
                   ret, bookCalls, tree, parsed, index>>

\* A caller other than the route, which passes a Book and a topic path.
adoc2html(opts) ==
    /\ pc = "idle"
    /\ pc' = "adoc2html"
    /\ caller' = "direct"
    /\ options' = opts
    /\ UNCHANGED <<status, routeResult, topicDirPath, sectionDepth, doc, call, stack,
                   ret, bookCalls, tree, parsed, index>>

\* topicPath.split throws a TypeError when topicPath is undefined.
ConstructorThrows(topicPath) == ~topicPath.defined

\* new FranklinConverter({ book, topicPath }) and its registration.  An
\* exception leaves adoc2html and rejects the route's promise.
Construct ==
    /\ pc = "adoc2html"
    /\ IF ConstructorThrows(options.topicPath)
       THEN /\ pc' = "raised"
            /\ routeResult' = IF caller = "route" THEN [kind |-> "TypeError"] ELSE routeResult
            /\ UNCHANGED topicDirPath
       ELSE /\ pc' = "registered"
            /\ topicDirPath' = Present(DirName(options.topicPath.value))
            /\ UNCHANGED routeResult
    /\ UNCHANGED <<caller, status, options, sectionDepth, doc, call, stack, ret,
                   bookCalls, tree, parsed, index>>

\* The parser calls convert(node, transform).  A section runs its template up
\* to the conversion of its blocks; any other node is converted at once.
ParserConvert(c) ==
    /\ pc = "registered"
    /\ options.backend = "franklin"
    /\ call' = c
    /\ doc' = "document"
    /\ IF EffectiveName(c.node, c.transform) = "section"
       THEN /\ pc' = "section"
            /\ stack' = <<Frame(c.node, sectionDepth)>>
            /\ sectionDepth' = DepthEntered(sectionDepth)
            /\ ret' = NoResult
            /\ bookCalls' = <<>>
       ELSE LET r == convert(c.node, c.transform, topicDirPath.value) IN
            /\ pc' = "converted"
            /\ ret' = [html |-> r.html, viaBase |-> r.viaBase, book |-> r.book, returned |-> TRUE]
            /\ bookCalls' = r.book
            /\ UNCHANGED <<stack, sectionDepth>>
    /\ UNCHANGED <<caller, status, routeResult, options, topicDirPath, tree, parsed, index>>

Top == stack[Len(stack)]

NextBlock == Top.node.blocks[Top.next]

\* blocks.map((block) => this.convert(block)), for a block that is no section.
SectionBlock ==
    /\ pc = "section"
    /\ Top.next <= Len(Top.node.blocks)
    /\ NextBlock.kind # "section"
    /\ LET r == convert(NextBlock, Undefined, topicDirPath.value) IN
       /\ stack' = [stack EXCEPT ![Len(stack)].kids = Append(@, r.html),
                                 ![Len(stack)].next = @ + 1]
       /\ bookCalls' = bookCalls \o r.book
    /\ UNCHANGED <<pc, caller, status, routeResult, options, topicDirPath, sectionDepth,
                   doc, call, ret, tree, parsed, index>>

\* this.convert(block) for a block that is a section: its template runs up to
\* the conversion of its own blocks.
SectionNested ==
    /\ pc = "section"
    /\ Top.next <= Len(Top.node.blocks)
    /\ NextBlock.kind = "section"
    /\ stack' = Append(stack, Frame(NextBlock, sectionDepth))
    /\ sectionDepth' = DepthEntered(sectionDepth)
    /\ UNCHANGED <<pc, caller, status, routeResult, options, topicDirPath, doc, call,
                   ret, bookCalls, tree, parsed, index>>

\* The section template from the end of blocks.map to its return.
SectionReturn ==
    /\ pc = "section"
    /\ Top.next > Len(Top.node.blocks)
    /\ LET wrapper == Wrapper(Top.closer, SectionContent(Top.node, Top.kids)) IN
       IF Len(stack) = 1
       THEN /\ pc' = "converted"
            /\ stack' = <<>>
            /\ ret' = [html |-> wrapper, viaBase |-> FALSE, book |-> bookCalls, returned |-> TRUE]
       ELSE /\ stack' = [SliceOff(stack, 1) EXCEPT ![Len(stack) - 1].kids = Append(@, wrapper),
                                                   ![Len(stack) - 1].next = @ + 1]
            /\ UNCHANGED <<pc, ret>>
    /\ sectionDepth' = DepthLeft(sectionDepth)
    /\ UNCHANGED <<caller, status, routeResult, options, topicDirPath, doc, call,
                   bookCalls, tree, parsed, index>>

\* AsciiDoctor.convert returns the document's HTML: through this converter
\* under the franklin backend, through the parser's own otherwise.  The call
\* record is dropped with it.
Rendered ==
    /\ pc \in {"registered", "converted"}
    /\ pc' = "rendered"
    /\ call' = NoCall
    /\ ret' = NoResult
    /\ bookCalls' = <<>>
    /\ UNCHANGED <<caller, status, routeResult, options, topicDirPath, sectionDepth, doc,
                   stack, tree, parsed, index>>

\* fromHtml has parsed the HTML into a tree; the forEach starts at the first child.
Parse(children) ==
    /\ pc = "rendered"
    /\ pc' = "wrapping"
    /\ tree' = children
    /\ parsed' = children
    /\ index' = 1
    /\ UNCHANGED <<caller, status, routeResult, options, topicDirPath, sectionDepth, doc,
                   call, stack, ret, bookCalls>>

\* One call of the forEach callback.
WrapChild ==
    /\ pc = "wrapping"
    /\ index <= Len(tree)
    /\ tree' = [tree EXCEPT ![index] = WrapElement(tree[index])]
    /\ index' = index + 1
    /\ UNCHANGED <<pc, caller, status, routeResult, options, topicDirPath, sectionDepth,
                   doc, call, stack, ret, bookCalls, parsed>>

\* responseInit(200, ContentType.HTML)
Response(html) == [kind |-> "response", status |-> 200, contentType |-> "text/html", body |-> html]

\* adoc2html returns the serialized tree; the route wraps it in a response.
Return ==
    /\ pc = "wrapping"
    /\ index > Len(tree)
    /\ pc' = "done"
    /\ routeResult' = IF caller = "route" THEN Response(Serialize(options.plain, tree))
                      ELSE [kind |-> "html", body |-> Serialize(options.plain, tree)]
    /\ UNCHANGED <<caller, status, options, topicDirPath, sectionDepth, doc, call, stack,
                   ret, bookCalls, tree, parsed, index>>

Next ==
    \/ \E b \in Backends : Docs(b)
    \/ \E st \in Statuses : Fetched(st)
    \/ \E opts \in DirectOptions : adoc2html(opts)
    \/ Construct
    \/ \E c \in Calls : ParserConvert(c)
    \/ SectionBlock
    \/ SectionNested
    \/ SectionReturn
    \/ Rendered
    \/ \E children \in Fragments : Parse(children)
    \/ WrapChild
    \/ Return

Spec == Init /\ [][Next]_vars

(***************************************************************************)
(* Properties                                                              *)
(***************************************************************************)
\* The kind convert dispatches on for the call under way.
EffectiveKind == IF call.transform # Undefined THEN call.transform ELSE call.node.kind

Converted(kind) == pc = "converted" /\ call.transform = Undefined /\ call.node.kind = kind

IsOpener(t) == t \in {DivOpen, ClassOpen, "<div class=\"admonition ", "<div class=\"dlist"}

Openers(html, k) == Cardinality({i \in 1..k : IsOpener(html[i])})

Closers(html, k) == Cardinality({i \in 1..k : html[i] = DivClose})

\* No prefix closes more containers than it has opened, and all are closed at the end.
ValidNesting(html) ==
    /\ \A k \in 1..Len(html) : Closers(html, k) <= Openers(html, k)
    /\ Closers(html, Len(html)) = Openers(html, Len(html))

HasNestedSection(node) == \E i \in 1..Len(node.blocks) : node.blocks[i].kind = "section"

\* The classes of the block html opens with: its name, then its variants.
RECURSIVE Split(_, _)
Split(s, sep) ==
    IF \A i \in 1..Len(s) : s[i] # sep THEN <<s>>
    ELSE LET k == CHOOSE i \in 1..Len(s) : s[i] = sep /\ \A j \in 1..(i - 1) : s[j] # sep
         IN  <<SubSeq(s, 1, k - 1)>> \o Split(SubSeq(s, k + 1, Len(s)), sep)

BlockClasses(html) ==
    LET close == CHOOSE i \in 1..Len(html) : html[i] = AttrClose /\ \A j \in 1..(i - 1) : html[j] # AttrClose
    IN  Split(SubSeq(html, 3, close - 1), " ")

BlockVariants(html) == Tail(BlockClasses(html))

HasVariant(html, variant) ==
    \E i \in 1..Len(BlockVariants(html)) : BlockVariants(html)[i] = variant

\* C1: the section depth is never negative, and every return from convert
\* leaves it at the value it had when the call was made (0 once the outermost
\* section has returned).
C1_DepthIsStackDiscipline ==
    /\ [](sectionDepth >= 0)
    /\ [][/\ (pc = "section" /\ Len(stack') < Len(stack))
             => sectionDepth' = stack[Len(stack)].entered
          /\ (pc = "registered" /\ pc' = "converted") => sectionDepth' = sectionDepth
          /\ pc' = "converted" => sectionDepth' = 0]_vars

\* C1 witness: a section holding a section holding a section has returned.
C1_Witness ==
    /\ Converted("section")
    /\ sectionDepth = 0
    /\ \E i \in 1..Len(call.node.blocks) :
          /\ call.node.blocks[i].kind = "section"
          /\ HasNestedSection(call.node.blocks[i])

\* C2: the containers of a section tree converted from depth 0 are validly
\* nested, and a section without nested sections has exactly one opener and
\* one closer.
C2_ContainersNest ==
    Converted("section") =>
        /\ ValidNesting(ret.html)
        /\ ~HasNestedSection(call.node) =>
              /\ Openers(ret.html, Len(ret.html)) = 1
              /\ Closers(ret.html, Len(ret.html)) = 1

\* C2 witness: a section with two sibling sections, one of them with a
\* section of its own, has been converted.
C2_Witness ==
    /\ Converted("section")
    /\ Len(call.node.blocks) = 2
    /\ call.node.blocks[1].kind = "section"
    /\ call.node.blocks[2].kind = "section"
    /\ HasNestedSection(call.node.blocks[1])
    /\ Openers(ret.html, Len(ret.html)) = 4

\* What the blocks of the node of the call convert to.
CallKids ==
    IF ConvertsBlocks(EffectiveKind)
    THEN [i \in 1..Len(call.node.blocks) |->
             convert(call.node.blocks[i], Undefined, topicDirPath.value)]
    ELSE <<>>

\* C3: a call whose effective kind has no template returns the base
\* converter's result; a call whose effective kind has one returns what the
\* template returns, the empty string included, without the base converter.
C3_FallbackIffNoTemplate ==
    pc = "converted" =>
        /\ ret.returned
        /\ EffectiveKind \notin Registered =>
              ret.viaBase /\ ret.html = <<"html5:" \o EffectiveKind>>
        /\ EffectiveKind \in Registered =>
              /\ ~ret.viaBase
              /\ EffectiveKind # "section" =>
                    ret.html = Template(EffectiveKind, call.node, CallKids, topicDirPath.value).html

\* C3 witness: a transform without a template overrides a kind that has one.
C3_Witness ==
    /\ pc = "converted"
    /\ call.transform # Undefined
    /\ call.transform \notin Registered
    /\ call.node.kind \in Registered
    /\ ret.viaBase

\* C3 second witness state: a template has returned the empty string.
C3_EmptyReturned ==
    /\ pc = "converted"
    /\ EffectiveKind \in Registered
    /\ ret.html = Empty
    /\ ~ret.viaBase

Scenario2 == [kind |-> "inline_anchor", target |-> Chars_Scenario2, role |-> "", text |-> <<"link">>]

HostRun ==
    [kind |-> "inline_anchor", role |-> "", text |-> <<"link">>,
     target |-> <<"h", "t", "t", "p", ":", "/", "/", "A", "-", "-", "-", "-", "B", ".", "i", "o">>]

ExampleCom == <<"h", "t", "t", "p", "s", ":", "/", "/", "e", "x", "a", "m", "p", "l", "e", ".", "c", "o", "m">>

\* C4 as claimed: the href of scenario 2 is https://example.com/a--b.
C4_AsClaimed ==
    (pc = "converted" /\ call.node = Scenario2) =>
        ret.html = <<"<a href=\"">> \o ExampleCom \o <<"/", "a", "-", "-", "b">>
                   \o <<AttrClose, "link", "</a>">>

\* C4 as amended: the href of scenario 2 is https://example.com/a---b (the
\* suffix stripped, the hostname lowercased, the hyphens of the path kept);
\* a run of hyphens in a hostname is collapsed to two.
C4_HostnameOnly ==
    /\ (pc = "converted" /\ call.node = Scenario2) =>
          ret.html = <<"<a href=\"">> \o ExampleCom \o <<"/", "a", "-", "-", "-", "b">>
                     \o <<AttrClose, "link", "</a>">>
    /\ (pc = "converted" /\ call.node = HostRun) =>
          ret.html = <<"<a href=\"", "h", "t", "t", "p", ":", "/", "/", "a", "-", "-", "b",
                       ".", "i", "o", "/", AttrClose, "link", "</a>">>

\* C4 witness: the link of scenario 2 has been converted.
C4_Witness == pc = "converted" /\ call.node = Scenario2 /\ call.transform = Undefined /\ ret.returned

Scenario3 ==
    [kind |-> "inline_anchor", target |-> Chars_Scenario3, role |-> "bare include", text |-> <<"link">>]

UnderGuide == options.topicPath.defined /\ options.topicPath.value = GuideIntro

\* The single-cell fragment block with the include and docs variants around an
\* anchor to the Book's resolution of path.
DocsFragment(path) ==
    <<NL, ClassOpen>> \o Fragment \o <<" ">> \o Include \o <<" ">> \o DocsVariant
    \o <<AttrClose, NL, DivOpen, DivOpen, NL, "<a href=\"", "book:">> \o path
    \o <<AttrClose, "link", "</a>", NL, DivClose, DivClose, NL, DivClose>>

\* An include whose target, the suffixes stripped, is an absolute http(s) URL.
AbsoluteInclude ==
    /\ Converted("inline_anchor")
    /\ call.node.role = "bare include"
    /\ \/ StartsWith(call.node.target, HTTP)
       \/ StartsWith(call.node.target, HTTPS)

AbsoluteIncludeSkipsBook ==
    AbsoluteInclude =>
        /\ bookCalls = <<>>
        /\ BlockClasses(ret.html) = <<Fragment, Include>>

\* C5 as claimed: scenario 3 links to the Book's resolution of guide/sub.
C5_AsClaimed ==
    /\ (Converted("inline_anchor") /\ call.node = Scenario3 /\ UnderGuide) =>
          ret.html = DocsFragment(<<"g", "u", "i", "d", "e", "/", "s", "u", "b">>)
    /\ AbsoluteIncludeSkipsBook

\* C5 as amended: scenario 3 links to the Book's resolution of guide/./sub,
\* the topic directory, a slash and the stripped target put together as they
\* are; an include with an absolute http(s) target never reaches the Book and
\* has no docs variant.
C5_IncludeResolution ==
    /\ (Converted("inline_anchor") /\ call.node = Scenario3 /\ UnderGuide) =>
          /\ ret.html = DocsFragment(<<"g", "u", "i", "d", "e", "/", ".", "/", "s", "u", "b">>)
          /\ bookCalls = <<<<"g", "u", "i", "d", "e", "/", ".", "/", "s", "u", "b">>>>
    /\ AbsoluteIncludeSkipsBook

\* C5 witness: the include of scenario 3 has been converted under guide/intro.adoc.
C5_Witness ==
    /\ Converted("inline_anchor")
    /\ call.node = Scenario3
    /\ UnderGuide
    /\ Len(bookCalls) = 1

\* C5 second witness state: an include with an absolute target has been converted.
C5_AbsoluteWitness == AbsoluteInclude /\ EndsWith(call.node.target, DotAdoc)

\* C6: a request to the Docs route ends with not found for an upstream 404,
\* with the upstream response for any other failure, and with a 200 HTML
\* response when the fetch succeeds; the conversion does not raise.
C6_RouteOutcome ==
    caller = "route" =>
        /\ pc # "raised"
        /\ pc = "done" =>
              /\ status = 404 => routeResult = [kind |-> "undefined"]
              /\ (~Ok(status) /\ status # 404) => routeResult = [kind |-> "upstream", status |-> status]
              /\ Ok(status) =>
                    /\ routeResult.kind = "response"
                    /\ routeResult.status = 200
                    /\ routeResult.contentType = "text/html"

\* C6, the part the code keeps: failures of the upstream fetch.
C6_Failures ==
    (caller = "route" /\ pc = "done" /\ ~Ok(status)) =>
        routeResult = IF status = 404 THEN [kind |-> "undefined"]
                      ELSE [kind |-> "upstream", status |-> status]

\* C6 witness: the fetch of a request to the route has succeeded.
C6_Witness == caller = "route" /\ Ok(status) /\ pc = "raised"

IsList(element) == element.type = "element" /\ element.tagName \in {"ol", "ul"}

\* C7: after the pass every top-level <ol> or <ul> is, at its position, a
\* <div> whose only child is that list; every other top-level node is as it
\* was parsed, lists below the top level included; no child is added, dropped
\* or moved.
C7_TopLevelListsWrapped ==
    pc \in {"wrapping", "done"} =>
        /\ Len(tree) = Len(parsed)
        /\ \A i \in 1..Len(parsed) :
              IF i < index /\ IsList(parsed[i])
              THEN /\ tree[i].type = "element"
                   /\ tree[i].tagName = "div"
                   /\ tree[i].children = <<parsed[i]>>
              ELSE tree[i] = parsed[i]

\* C7 witness: a fragment of a list and a div holding lists has been through the pass.
C7_Witness ==
    /\ pc = "done"
    /\ Len(parsed) = 2
    /\ parsed[1].tagName = "ol"
    /\ parsed[2].tagName = "div"
    /\ tree[1].tagName = "div"
    /\ tree[2] = parsed[2]

IsRowLabel(t) ==
    \E part \in {"h", "b", "f"}, i \in 1..MaxRows : t = part \o ToString(i)

Labels(rows) == [i \in 1..Len(rows) |-> rows[i][1][1]]

\* C8: a table block carries the headless variant exactly when the table has
\* no head rows, whatever names the block, and its rows are the head rows,
\* then the body rows, then the foot rows.
C8_HeadlessIffNoHead ==
    Converted("table") =>
        /\ HasVariant(ret.html, Headless) <=> Len(call.node.head) = 0
        /\ SelectSeq(ret.html, IsRowLabel)
             = Labels(call.node.head) \o Labels(call.node.body) \o Labels(call.node.foot)

\* C8 witness: a titled table without head rows has become a block named by its title.
C8_Witness ==
    /\ Converted("table")
    /\ call.node.title # Empty
    /\ Len(call.node.head) = 0
    /\ Len(call.node.body) > 0
    /\ Len(call.node.foot) > 0
    /\ BlockClasses(ret.html)[1] # TableName
    /\ HasVariant(ret.html, Headless)

\* C8 second witness state: a table with head rows has become a table block.
C8_HeadWitness ==
    /\ Converted("table")
    /\ Len(call.node.head) > 0
    /\ BlockClasses(ret.html) = <<TableName>>

\* The nested content of the item of the call: its blocks converted and
\* concatenated, or the parser's rendering of them where that is empty.
NestedContent ==
    IF Flatten(KidsHtml(CallKids)) # Empty THEN Flatten(KidsHtml(CallKids))
    ELSE Join(KidsHtml(CallKids), <<"\n">>)

\* C9: an item without text and without content converts to the empty
\* string; any other item converts to one <li> holding its text as a leading
\* paragraph and then its nested content.
C9_ItemKeepsContent ==
    Converted("list_item") =>
        IF call.node.text = Empty /\ NestedContent = Empty THEN ret.html = Empty
        ELSE ret.html = <<"<li>">>
                        \o (IF call.node.text # Empty
                            THEN <<"<p>">> \o call.node.text \o <<"</p>">> ELSE Empty)
                        \o NestedContent \o <<"</li>">>

\* C9, the part the code keeps: items with text, and items with nothing.
C9_ItemWithText ==
    (Converted("list_item") /\ (call.node.text # Empty \/ NestedContent = Empty)) =>
        IF call.node.text = Empty THEN ret.html = Empty
        ELSE ret.html = <<"<li>", "<p>">> \o call.node.text \o <<"</p>">>
                        \o NestedContent \o <<"</li>">>

\* C9 witness: an item without text whose block converts to a paragraph.
C9_Witness ==
    /\ Converted("list_item")
    /\ call.node.text = Empty
    /\ call.node.blocks = <<Paragraph>>
    /\ ret.html = <<"<li>", "</li>">>

NothingRenders == \A i \in 1..Len(CallKids) : CallKids[i].html = Empty

\* C10 as claimed: a list none of whose items renders converts to the empty
\* string, with the procedure role or without it.
C10_AsClaimed ==
    ((Converted("ulist") \/ Converted("olist")) /\ NothingRenders) => ret.html = Empty

\* C10 as amended: such a list converts to the empty string unless it is an
\* ordered list with the procedure role, which converts to a procedure block
\* around nothing: no list tags, but the block's own markup.
C10_EmptyListUnlessProcedure ==
    ((Converted("ulist") \/ Converted("olist")) /\ NothingRenders) =>
        IF call.node.kind = "olist" /\ call.node.role = "procedure"
        THEN /\ BlockClasses(ret.html) = <<Procedure>>
             /\ \A i \in 1..Len(ret.html) : ret.html[i] \notin {"<ol>", "</ol>", "<ul>", "</ul>", "<li>"}
        ELSE ret.html = Empty

\* C10 witness: an unordered list of two items that render nothing has been converted.
C10_Witness ==
    /\ Converted("ulist")
    /\ Len(call.node.blocks) = 2
    /\ NothingRenders
    /\ ret.html = Empty

\* C10 second witness state: a procedure without renderable items has been converted.
C10_ProcedureWitness ==
    /\ Converted("olist")
    /\ call.node.role = "procedure"
    /\ Len(call.node.blocks) = 1
    /\ NothingRenders
    /\ ret.html # Empty

====
